---- MODULE Spec2Model ----
(***************************************************************************)
(* Personal Finance dashboard (src/main.py): a Streamlit script that loads *)
(* a bank statement, categorizes its rows by keyword, lets the user add    *)
(* categories and re-categorize rows, and keeps the keyword store in       *)
(* categories.json.  Streamlit runs the whole script again on every widget *)
(* interaction; an action of this model is one such interaction and the    *)
(* script run(s) it causes.                                                *)
(*                                                                         *)
(* Text is a sequence of one-character strings, so that str.lower() and    *)
(* str.strip() are computed and not assumed.  Amounts are whole numbers.   *)
(***************************************************************************)
EXTENDS Integers, Sequences, FiniteSets, TLC

VARIABLES
    categories,      \* st.session_state.categories: the dict, in insertion order
    category_file,   \* categories.json: whether it exists, and its JSON members
    uploaded_file,   \* the file uploader's value: 0 (None) or an index of Files
    debits_df,       \* st.session_state.debits_df
    credits_df,      \* st.session_state.credits_df
    debit_totals,    \* category_totals shown in the Expense Summary of the last run
    credit_totals,   \* category_totals shown in the Credit Summary of the last run
    event,           \* the interaction that caused the last script run, and its inputs
    outcome,         \* how the last script run ended
    learned          \* cleaned narration -> the category an applied edit last moved it to

vars == <<categories, category_file, uploaded_file, debits_df, credits_df,
          debit_totals, credit_totals, event, outcome, learned>>

----------------------------------------------------------------------------
(* Bounds of the model.                                                    *)

\* the most keywords the store holds over all categories
MaxKeywords == 2
\* the most categories the user adds
MaxCategories == 2

----------------------------------------------------------------------------
(* Text.                                                                   *)

Uncategorized == "Uncategorized"

\* a pandas cell that holds no text (an empty CSV cell is read as NaN)
NaN == <<"<NaN>">>

IsStr(v) == v # NaN

lower(s) ==
    [i \in DOMAIN s |->
        CASE s[i] = "A" -> "a"
          [] s[i] = "B" -> "b"
          [] s[i] = "N" -> "n"
          [] OTHER -> s[i]]

RECURSIVE lstrip(_)
lstrip(s) == IF s # <<>> /\ Head(s) = " " THEN lstrip(Tail(s)) ELSE s

RECURSIVE rstrip(_)
rstrip(s) ==
    IF s # <<>> /\ s[Len(s)] = " " THEN rstrip(SubSeq(s, 1, Len(s) - 1)) ELSE s

strip(s) == lstrip(rstrip(s))

\* "x in list"
In(x, list) == \E i \in DOMAIN list : list[i] = x

----------------------------------------------------------------------------
(* The category store: a Python dict, kept as the sequence of its items in *)
(* insertion order.                                                        *)

Keys(cats) == {cats[i].name : i \in DOMAIN cats}

HasKey(cats, name) == \E i \in DOMAIN cats : cats[i].name = name

Get(cats, name) == cats[CHOOSE i \in DOMAIN cats : cats[i].name = name].keywords

\* d[name] = keywords: replaces the value of a present key in place, appends a new key
SetItem(cats, name, kws) ==
    IF HasKey(cats, name)
    THEN [i \in DOMAIN cats |->
            IF cats[i].name = name THEN [name |-> name, keywords |-> kws] ELSE cats[i]]
    ELSE Append(cats, [name |-> name, keywords |-> kws])

initial_categories == << [name |-> Uncategorized, keywords |-> <<>>] >>

\* json.dump of the dict: one member <<key, list>> per item, in the dict's order
json_dump(cats) == [i \in DOMAIN cats |-> <<cats[i].name, cats[i].keywords>>]

\* json.load of an object: members in order, a repeated key keeps its last value
RECURSIVE json_load_from(_, _)
json_load_from(members, acc) ==
    IF members = <<>> THEN acc
    ELSE json_load_from(Tail(members), SetItem(acc, Head(members)[1], Head(members)[2]))

json_load(members) == json_load_from(members, <<>>)

NoFile == [exists |-> FALSE, members |-> <<>>]

\* open(category_file, "w"); json.dump(...)
save_categories(cats) == [exists |-> TRUE, members |-> json_dump(cats)]

\* lines 12-21 of the script: the session's dict after the start of a script run
load_categories(session_cats, file) ==
    IF file.exists THEN json_load(file.members) ELSE session_cats

----------------------------------------------------------------------------
(* add_keyword_to_category, and the Add Category branch of main.           *)

\* The result of a call: the dict and the file after it, and how it returned
\* ("True", "False", or the exception it raised).
Ret(cats, file, ret) == [cats |-> cats, file |-> file, ret |-> ret]

\* add_keyword_to_category without its call of save_categories
add_keyword_unsaved(cats, file, category, keyword) ==
    IF ~IsStr(keyword) THEN Ret(cats, file, "AttributeError")
    ELSE LET k == strip(keyword) IN
         IF k = <<>> THEN Ret(cats, file, "False")
         ELSE IF ~HasKey(cats, category) THEN Ret(cats, file, "KeyError")
         ELSE IF In(k, Get(cats, category)) THEN Ret(cats, file, "False")
         ELSE Ret(SetItem(cats, category, Append(Get(cats, category), k)), file, "True")

\* add_keyword_to_category without "keyword not in ..."
add_keyword_unchecked(cats, file, category, keyword) ==
    IF ~IsStr(keyword) THEN Ret(cats, file, "AttributeError")
    ELSE LET k == strip(keyword) IN
         IF k = <<>> THEN Ret(cats, file, "False")
         ELSE IF ~HasKey(cats, category) THEN Ret(cats, file, "KeyError")
         ELSE LET added == SetItem(cats, category, Append(Get(cats, category), k))
              IN  Ret(added, save_categories(added), "True")

add_keyword_to_category(cats, file, category, keyword) ==
    IF ~IsStr(keyword) THEN Ret(cats, file, "AttributeError")
    ELSE LET k == strip(keyword) IN
         IF k = <<>> THEN Ret(cats, file, "False")
         ELSE IF ~HasKey(cats, category) THEN Ret(cats, file, "KeyError")
         ELSE IF In(k, Get(cats, category)) THEN Ret(cats, file, "False")
         ELSE LET added == SetItem(cats, category, Append(Get(cats, category), k))
              IN  Ret(added, save_categories(added), "True")

\* the Add Category branch assigning a new dict that holds only the new name
add_category_replacing(cats, file, add_button, new_category) ==
    IF add_button /\ new_category # "" /\ ~HasKey(cats, new_category)
    THEN LET added == << [name |-> new_category, keywords |-> <<>>] >>
         IN  Ret(added, save_categories(added), "True")
    ELSE Ret(cats, file, "False")

\* the Add Category branch without "new_category not in ..."
add_category_unchecked(cats, file, add_button, new_category) ==
    IF add_button /\ new_category # ""
    THEN LET added == SetItem(cats, new_category, <<>>)
         IN  Ret(added, save_categories(added), "True")
    ELSE Ret(cats, file, "False")

\* if add_button and new_category: if new_category not in categories: ... save
add_category(cats, file, add_button, new_category) ==
    IF add_button /\ new_category # "" /\ ~HasKey(cats, new_category)
    THEN LET added == SetItem(cats, new_category, <<>>)
         IN  Ret(added, save_categories(added), "True")
    ELSE Ret(cats, file, "False")

----------------------------------------------------------------------------
(* categorize_transactions.                                                *)

\* keyword.lower().strip() / row["Narration"].lower().strip()
clean(s) == strip(lower(s))

lowered_keywords(keywords) == [i \in DOMAIN keywords |-> clean(keywords[i])]

\* the category loop skips this item
skipped(item) == item.name = Uncategorized \/ item.keywords = <<>>

\* the inner loop leaving alone a row that an earlier category matched
match_rows_unassigned_only(rows, item) ==
    [r \in DOMAIN rows |->
        IF /\ rows[r].Category = Uncategorized
           /\ In(clean(rows[r].Narration), lowered_keywords(item.keywords))
        THEN [rows[r] EXCEPT !.Category = item.name]
        ELSE rows[r]]

\* the inner loop over the rows, for one category
match_rows(rows, item) ==
    [r \in DOMAIN rows |->
        IF In(clean(rows[r].Narration), lowered_keywords(item.keywords))
        THEN [rows[r] EXCEPT !.Category = item.name]
        ELSE rows[r]]

RECURSIVE categorize_loop(_, _, _)
categorize_loop(rows, cats, i) ==
    IF i > Len(cats) THEN rows
    ELSE IF skipped(cats[i]) THEN categorize_loop(rows, cats, i + 1)
    ELSE categorize_loop(match_rows(rows, cats[i]), cats, i + 1)

\* row["Narration"].lower() raises: no such column, or a cell that is no text
categorize_raises(has_narration, rows, cats) ==
    /\ \E i \in DOMAIN cats : ~skipped(cats[i])
    /\ rows # <<>>
    /\ \/ ~has_narration
       \/ \E r \in DOMAIN rows : ~IsStr(rows[r].Narration)

\* categorize_transactions with a default label that is no key of the store
categorize_transactions_mislabelled(rows, cats) ==
    categorize_loop([r \in DOMAIN rows |-> [rows[r] EXCEPT !.Category = "Uncategorised"]],
                    cats, 1)

categorize_transactions(rows, cats) ==
    categorize_loop([r \in DOMAIN rows |-> [rows[r] EXCEPT !.Category = Uncategorized]],
                    cats, 1)

----------------------------------------------------------------------------
(* load_transactions.  A CSV file is its set of column names (already      *)
(* trimmed) and its data rows; a cell is text, or NaN where the CSV cell   *)
(* is empty or the column is missing.                                      *)

Digits == <<"0", "1", "2", "3", "4", "5", "6", "7", "8", "9">>

IsDigit(c) == In(c, Digits)

DigitValue(c) == (CHOOSE i \in DOMAIN Digits : Digits[i] = c) - 1

AllDigits(s) == s # <<>> /\ \A i \in DOMAIN s : IsDigit(s[i])

RECURSIVE ToNumber(_)
ToNumber(s) ==
    IF s = <<>> THEN 0
    ELSE 10 * ToNumber(SubSeq(s, 1, Len(s) - 1)) + DigitValue(s[Len(s)])

\* .astype(str): NaN becomes the text "nan"
astype_str(cell) == IF IsStr(cell) THEN cell ELSE <<"n", "a", "n">>

\* .str.replace(",", "")
RECURSIVE remove_commas(_)
remove_commas(s) ==
    IF s = <<>> THEN <<>>
    ELSE IF Head(s) = "," THEN remove_commas(Tail(s))
    ELSE <<Head(s)>> \o remove_commas(Tail(s))

\* .replace(["", "nan", "NaN"], 0): the three texts become 0, anything else stays
is_zero_text(s) == s \in {<<>>, <<"n", "a", "n">>, <<"N", "a", "N">>}

cleaned_amount(cell) == remove_commas(astype_str(cell))

\* .astype(float) raises on this cell
amount_raises(cell) ==
    ~is_zero_text(cleaned_amount(cell)) /\ ~AllDigits(cleaned_amount(cell))

amount(cell) ==
    IF is_zero_text(cleaned_amount(cell)) THEN 0 ELSE ToNumber(cleaned_amount(cell))

\* the text up to the first "/" and the text after it
RECURSIVE before_slash(_)
before_slash(s) ==
    IF s = <<>> \/ Head(s) = "/" THEN <<>> ELSE <<Head(s)>> \o before_slash(Tail(s))

after_slash(s) == SubSeq(s, Len(before_slash(s)) + 2, Len(s))

date_day(s) == before_slash(s)
date_month(s) == before_slash(after_slash(s))
date_year(s) == after_slash(after_slash(s))

\* %y: 69..99 are 1969..1999, 00..68 are 2000..2068
full_year(yy) == IF yy >= 69 THEN 1900 + yy ELSE 2000 + yy

days_in_month(m, y) ==
    IF m \in {4, 6, 9, 11} THEN 30
    ELSE IF m = 2 THEN (IF y % 4 = 0 THEN 29 ELSE 28)
    ELSE 31

\* format="%d/%m/%y": day and month of one or two digits, a year of two
date_matches(cell) ==
    /\ IsStr(cell)
    /\ Len(before_slash(cell)) < Len(cell)
    /\ Len(before_slash(after_slash(cell))) < Len(after_slash(cell))
    /\ AllDigits(date_day(cell)) /\ Len(date_day(cell)) <= 2
    /\ AllDigits(date_month(cell)) /\ Len(date_month(cell)) <= 2
    /\ AllDigits(date_year(cell)) /\ Len(date_year(cell)) = 2
    /\ ToNumber(date_month(cell)) \in 1..12
    /\ ToNumber(date_day(cell)) \in
          1..days_in_month(ToNumber(date_month(cell)),
                           full_year(ToNumber(date_year(cell))))

to_datetime(cell) ==
    <<full_year(ToNumber(date_year(cell))), ToNumber(date_month(cell)),
      ToNumber(date_day(cell))>>

Cell(csv, r, column) == IF column \in csv.columns THEN csv.rows[r][column] ELSE NaN

\* the try block raises before categorize_transactions is reached
parse_raises(csv) ==
    \/ "Withdrawal Amt." \notin csv.columns
    \/ \E r \in DOMAIN csv.rows : amount_raises(csv.rows[r]["Withdrawal Amt."])
    \/ "Deposit Amt." \notin csv.columns
    \/ \E r \in DOMAIN csv.rows : amount_raises(csv.rows[r]["Deposit Amt."])
    \/ "Date" \notin csv.columns
    \/ \E r \in DOMAIN csv.rows : ~date_matches(csv.rows[r]["Date"])

parsed_rows(csv) ==
    [r \in DOMAIN csv.rows |->
        [Date       |-> to_datetime(csv.rows[r]["Date"]),
         Narration  |-> Cell(csv, r, "Narration"),
         Withdrawal |-> amount(csv.rows[r]["Withdrawal Amt."]),
         Deposit    |-> amount(csv.rows[r]["Deposit Amt."]),
         Category   |-> Uncategorized]]

\* a dataframe: None, or its rows and whether it has a Narration column
NoTable == [present |-> FALSE, has_narration |-> FALSE, rows |-> <<>>]

Table(has_narration, rows) ==
    [present |-> TRUE, has_narration |-> has_narration, rows |-> rows]

\* lines 49-72: the dataframe before categorize_transactions, or the exception
read_and_clean(csv) ==
    [raises |-> parse_raises(csv),
     has_narration |-> "Narration" \in csv.columns,
     rows |-> IF parse_raises(csv) THEN <<>> ELSE parsed_rows(csv)]

\* load_transactions returning the uncategorized dataframe when categorizing raises
load_transactions_partial(cleaned, cats) ==
    IF cleaned.raises THEN NoTable
    ELSE IF categorize_raises(cleaned.has_narration, cleaned.rows, cats)
    THEN Table(cleaned.has_narration, cleaned.rows)
    ELSE Table(cleaned.has_narration, categorize_transactions(cleaned.rows, cats))

\* None when the try block raised (st.error), else the categorized dataframe
load_transactions(cleaned, cats) ==
    IF cleaned.raises THEN NoTable
    ELSE IF categorize_raises(cleaned.has_narration, cleaned.rows, cats) THEN NoTable
    ELSE Table(cleaned.has_narration, categorize_transactions(cleaned.rows, cats))

IsDebit(row) == row.Withdrawal > 0
IsCredit(row) == row.Deposit > 0

\* df[df["Withdrawal Amt."] > 0].copy()
debits_of(df) == Table(df.has_narration, SelectSeq(df.rows, IsDebit))

\* df[df["Deposit Amt."] > 0].copy()
credits_of(df) == Table(df.has_narration, SelectSeq(df.rows, IsCredit))

----------------------------------------------------------------------------
(* The summaries: groupby("Category")[column].sum().reset_index(), then    *)
(* sort_values(column, ascending=False).                                   *)

\* the category names of the model, in the order groupby sorts its keys
SortedNames == <<"Food", "Rent", Uncategorized>>

RECURSIVE sum_of(_, _, _)
sum_of(rows, column, category) ==
    IF rows = <<>> THEN 0
    ELSE (IF Head(rows).Category = category THEN Head(rows)[column] ELSE 0)
         + sum_of(Tail(rows), column, category)

RECURSIVE groupby_sum(_, _, _)
groupby_sum(rows, column, names) ==
    IF names = <<>> THEN <<>>
    ELSE (IF \E r \in DOMAIN rows : rows[r].Category = Head(names)
          THEN << [Category |-> Head(names), total |-> sum_of(rows, column, Head(names))] >>
          ELSE <<>>)
         \o groupby_sum(rows, column, Tail(names))

\* the sort with ascending=True
RECURSIVE insert_ascending(_, _)
insert_ascending(sorted, entry) ==
    IF sorted = <<>> THEN <<entry>>
    ELSE IF Head(sorted).total <= entry.total
    THEN <<Head(sorted)>> \o insert_ascending(Tail(sorted), entry)
    ELSE <<entry>> \o sorted

\* one entry put into a sequence sorted by total, descending, after its equals
RECURSIVE insert_descending(_, _)
insert_descending(sorted, entry) ==
    IF sorted = <<>> THEN <<entry>>
    ELSE IF Head(sorted).total >= entry.total
    THEN <<Head(sorted)>> \o insert_descending(Tail(sorted), entry)
    ELSE <<entry>> \o sorted

RECURSIVE sort_values_descending(_)
sort_values_descending(entries) ==
    IF entries = <<>> THEN <<>>
    ELSE insert_descending(sort_values_descending(SubSeq(entries, 1, Len(entries) - 1)),
                           entries[Len(entries)])

category_totals(table, column) ==
    sort_values_descending(groupby_sum(table.rows, column, SortedNames))

----------------------------------------------------------------------------
(* The statements the user uploads.                                        *)

Text_a == <<"a">>
Text_A_ == <<" ", "A", " ">>
Text_b == <<"b">>
Text_c == <<"c">>

CsvRow(date, narration, withdrawal, deposit) ==
    ("Date" :> date) @@ ("Narration" :> narration)
        @@ ("Withdrawal Amt." :> withdrawal) @@ ("Deposit Amt." :> deposit)

AllColumns == {"Date", "Narration", "Withdrawal Amt.", "Deposit Amt."}

Date1 == <<"0", "1", "/", "0", "4", "/", "2", "3">>
Date2 == <<"2", "/", "4", "/", "2", "3">>
Date3 == <<"3", "1", "/", "1", "2", "/", "9", "9">>
BadDate == <<"3", "1", "/", "0", "4", "/", "2", "3">>

GoodRows ==
    << CsvRow(Date1, Text_a, <<"5", "0">>, NaN),
       CsvRow(Date2, Text_b, <<"1", ",", "2", "0", "0">>, <<"n", "a", "n">>),
       CsvRow(Date2, Text_c, <<"5", "0">>, NaN),
       CsvRow(Date3, Text_b, <<"N", "a", "N">>, <<"3", "0">>),
       CsvRow(Date3, Text_a, NaN, <<"7">>) >>

OtherRows ==
    << CsvRow(Date3, Text_A_, <<"9">>, NaN),
       CsvRow(Date1, Text_a, NaN, NaN) >>

Files ==
    << [columns |-> AllColumns, rows |-> GoodRows],
       [columns |-> AllColumns, rows |-> OtherRows],
       \* no Deposit Amt. column
       [columns |-> AllColumns \ {"Deposit Amt."}, rows |-> OtherRows],
       \* an amount that is no number once its commas are gone
       [columns |-> AllColumns,
        rows |-> << CsvRow(Date1, Text_a, <<"1", ",", "x">>, NaN) >>],
       \* 31 April
       [columns |-> AllColumns,
        rows |-> << CsvRow(Date1, Text_a, <<"5">>, NaN),
                    CsvRow(BadDate, Text_b, <<"5">>, NaN) >>],
       \* no Narration column
       [columns |-> AllColumns \ {"Narration"}, rows |-> OtherRows],
       \* an empty narration cell
       [columns |-> AllColumns,
        rows |-> << CsvRow(Date1, NaN, <<"5">>, NaN),
                    CsvRow(Date1, Text_b, <<"6">>, NaN) >>] >>

\* lines 49-72 on each of the files
Cleaned == [f \in DOMAIN Files |-> read_and_clean(Files[f])]

\* what the user types into "New Category Name"
CategoryInputs == {"Food", "Rent", ""}

----------------------------------------------------------------------------
(* main: one run of the script.                                            *)

\* the widgets' values in a script run
Widgets(add_button, new_category, apply_debit, debit_edited, apply_credit, credit_edited) ==
    [add_button |-> add_button, new_category |-> new_category,
     apply_debit |-> apply_debit, debit_edited |-> debit_edited,
     apply_credit |-> apply_credit, credit_edited |-> credit_edited]

NoButtons == Widgets(FALSE, "", FALSE, <<>>, FALSE, <<>>)

\* "for idx, row in edited_df.iterrows()" from row r on; edited is the Category
\* column of edited_df.  An exception of add_keyword_to_category ends the run.
RECURSIVE apply_changes(_, _, _, _, _)
apply_changes(rows, edited, cats, file, r) ==
    IF r > Len(rows)
    THEN [rows |-> rows, cats |-> cats, file |-> file, raised |-> FALSE]
    ELSE IF edited[r] = rows[r].Category
    THEN apply_changes(rows, edited, cats, file, r + 1)
    ELSE LET changed == [rows EXCEPT ![r].Category = edited[r]]
             added == add_keyword_to_category(cats, file, edited[r], rows[r].Narration)
         IN  IF added.ret \in {"AttributeError", "KeyError"}
             THEN [rows |-> changed, cats |-> cats, file |-> file, raised |-> TRUE]
             ELSE apply_changes(changed, edited, added.cats, added.file, r + 1)

\* a tab's "if save_button:" block
apply_button(save_button, table, edited, cats, file) ==
    IF save_button
    THEN apply_changes(table.rows, edited, cats, file, 1)
    ELSE [rows |-> table.rows, cats |-> cats, file |-> file, raised |-> FALSE]

\* the session state and the page at the end of a script run
Ran(cats, file, debits, credits, dtotals, ctotals, how) ==
    [categories |-> cats, category_file |-> file, debits_df |-> debits,
     credits_df |-> credits, debit_totals |-> dtotals, credit_totals |-> ctotals,
     outcome |-> how]

\* tab2 (lines 179-237)
credit_tab(cats, file, debits, credits, dtotals, w) ==
    LET applied == apply_button(w.apply_credit, credits, w.credit_edited, cats, file)
        edited_table == Table(credits.has_narration, applied.rows)
    IN  IF applied.raised
        THEN Ran(applied.cats, applied.file, debits, edited_table, dtotals, <<>>,
                 "AttributeError")
        ELSE Ran(applied.cats, applied.file, debits, edited_table, dtotals,
                 category_totals(edited_table, "Deposit"), "rendered")

\* tab1 after the Add Category block (lines 119-177), then tab2
tabs(cats, file, debits, credits, w) ==
    IF ~debits.has_narration
    THEN Ran(cats, file, debits, credits, <<>>, <<>>, "KeyError")
    ELSE LET applied == apply_button(w.apply_debit, debits, w.debit_edited, cats, file)
             edited_table == Table(debits.has_narration, applied.rows)
         IN  IF applied.raised
             THEN Ran(applied.cats, applied.file, edited_table, credits, <<>>, <<>>,
                      "AttributeError")
             ELSE credit_tab(applied.cats, applied.file, edited_table, credits,
                             category_totals(edited_table, "Withdrawal"), w)

\* The script from its first line: the session's dict, categories.json, the
\* uploader's value and the session's tables before the run, and the widgets.
\* st.rerun() abandons the run and runs the script again, no button pressed.
RECURSIVE script(_, _, _, _, _, _)
script(session_cats, file, uploaded, debits, credits, w) ==
    LET cats == load_categories(session_cats, file) IN
    IF uploaded = 0
    THEN Ran(cats, file, debits, credits, <<>>, <<>>, "no_file")
    ELSE LET df == load_transactions(Cleaned[uploaded], cats) IN
         IF ~df.present
         THEN Ran(cats, file, debits, credits, <<>>, <<>>, "load_error")
         ELSE LET added == add_category(cats, file, w.add_button, w.new_category) IN
              IF added.ret = "True"
              THEN script(added.cats, added.file, uploaded, debits_of(df),
                          credits_of(df), NoButtons)
              ELSE tabs(cats, file, debits_of(df), credits_of(df), w)

----------------------------------------------------------------------------
(* The interactions.                                                       *)

Event(kind, category, keyword) == [kind |-> kind, category |-> category, keyword |-> keyword]

RECURSIVE count_keywords(_)
count_keywords(cats) ==
    IF cats = <<>> THEN 0 ELSE Len(Head(cats).keywords) + count_keywords(Tail(cats))

\* the narrations the applied edits moved, each with the category it went to
RECURSIVE moved(_, _, _, _)
moved(before, after, r, acc) ==
    IF r > Len(before) THEN acc
    ELSE IF /\ after[r].Category # before[r].Category
            /\ IsStr(before[r].Narration)
            /\ strip(before[r].Narration) # <<>>
    THEN moved(before, after, r + 1,
               (clean(before[r].Narration) :> after[r].Category) @@ acc)
    ELSE moved(before, after, r + 1, acc)

Finish(ran, ev, newly_learned) ==
    /\ categories' = ran.categories
    /\ category_file' = ran.category_file
    /\ debits_df' = ran.debits_df
    /\ credits_df' = ran.credits_df
    /\ debit_totals' = ran.debit_totals
    /\ credit_totals' = ran.credit_totals
    /\ outcome' = ran.outcome
    /\ event' = ev
    /\ learned' = newly_learned

\* the page as the user sees it before clicking: the dict and the tables the
\* coming script run loads
Fresh == load_transactions(Cleaned[uploaded_file],
                           load_categories(categories, category_file))

Options == Keys(load_categories(categories, category_file))

Init ==
    /\ categories = initial_categories
    /\ category_file = NoFile
    /\ uploaded_file = 0
    /\ debits_df = NoTable
    /\ credits_df = NoTable
    /\ debit_totals = <<>>
    /\ credit_totals = <<>>
    /\ event = Event("start", "", <<>>)
    /\ outcome = "no_file"
    /\ learned = <<>>

\* the browser opens the app again: a new session, nothing uploaded
NewSession ==
    /\ uploaded_file' = 0
    /\ Finish(script(initial_categories, category_file, 0, NoTable, NoTable, NoButtons),
              Event("start", "", <<>>), learned)

\* the user picks another file, or removes the file
Upload(f) ==
    /\ f # uploaded_file
    /\ uploaded_file' = f
    /\ Finish(script(categories, category_file, f, debits_df, credits_df, NoButtons),
              Event("upload", "", <<>>), learned)

\* any other widget change (typing a name, editing a cell): a run with no button
Interact ==
    /\ uploaded_file' = uploaded_file
    /\ Finish(script(categories, category_file, uploaded_file, debits_df, credits_df,
                     NoButtons),
              Event("interact", "", <<>>), learned)

ClickAddCategory(name) ==
    /\ uploaded_file # 0
    /\ Fresh.present
    /\ Len(categories) <= MaxCategories \/ name = "" \/ HasKey(categories, name)
    /\ uploaded_file' = uploaded_file
    /\ Finish(script(categories, category_file, uploaded_file, debits_df, credits_df,
                     Widgets(TRUE, name, FALSE, <<>>, FALSE, <<>>)),
              Event("add_category", name, <<>>), learned)

ClickApplyChanges(edited) ==
    LET ran == script(categories, category_file, uploaded_file, debits_df, credits_df,
                      Widgets(FALSE, "", TRUE, edited, FALSE, <<>>))
    IN  /\ count_keywords(ran.categories) <= MaxKeywords
        /\ uploaded_file' = uploaded_file
        /\ Finish(ran, Event("apply_debit", "", <<>>),
                  moved(debits_of(Fresh).rows, ran.debits_df.rows, 1, learned))

ClickApplyCategory(edited) ==
    LET ran == script(categories, category_file, uploaded_file, debits_df, credits_df,
                      Widgets(FALSE, "", FALSE, <<>>, TRUE, edited))
    IN  /\ count_keywords(ran.categories) <= MaxKeywords
        /\ uploaded_file' = uploaded_file
        /\ Finish(ran, Event("apply_credit", "", <<>>),
                  moved(credits_of(Fresh).rows, ran.credits_df.rows, 1, learned))

\* the tabs are drawn: the file loads and has a Narration column
Drawn == uploaded_file # 0 /\ Fresh.present /\ Fresh.has_narration

Next ==
    \/ NewSession
    \/ \E f \in 0..Len(Files) : Upload(f)
    \/ Interact
    \/ \E name \in CategoryInputs : ClickAddCategory(name)
    \/ /\ Drawn
       /\ \E edited \in [DOMAIN debits_of(Fresh).rows -> Options] : ClickApplyChanges(edited)
    \/ /\ Drawn
       /\ \E edited \in [DOMAIN credits_of(Fresh).rows -> Options] : ClickApplyCategory(edited)

Spec == Init /\ [][Next]_vars

----------------------------------------------------------------------------
(* The store's operations called directly, on any arguments.               *)

CategoryArguments == {"Food", "Rent", Uncategorized, "Travel"}

KeywordArguments == {Text_a, Text_A_, Text_b, <<" ">>, <<>>, NaN}

CallAddCategory(name) ==
    LET called == add_category(categories, category_file, TRUE, name) IN
    /\ Len(categories) <= MaxCategories \/ called.ret = "False"
    /\ categories' = called.cats
    /\ category_file' = called.file
    /\ outcome' = called.ret
    /\ event' = Event("add_category", name, <<>>)
    /\ UNCHANGED <<uploaded_file, debits_df, credits_df, debit_totals, credit_totals,
                   learned>>

CallAddKeyword(category, keyword) ==
    LET called == add_keyword_to_category(categories, category_file, category, keyword) IN
    /\ count_keywords(called.cats) <= MaxKeywords
    /\ categories' = called.cats
    /\ category_file' = called.file
    /\ outcome' = called.ret
    /\ event' = Event("add_keyword", category, keyword)
    /\ UNCHANGED <<uploaded_file, debits_df, credits_df, debit_totals, credit_totals,
                   learned>>

StoreNext ==
    \/ \E name \in CategoryInputs : CallAddCategory(name)
    \/ \E category \in CategoryArguments, keyword \in KeywordArguments :
          CallAddKeyword(category, keyword)

StoreSpec == Init /\ [][StoreNext]_vars

----------------------------------------------------------------------------
(* The properties.                                                         *)

Rows == debits_df.rows \o credits_df.rows

\* the tables of this state are the ones categorize_transactions returned
FreshlyCategorized ==
    outcome = "rendered" /\ event.kind \in {"upload", "interact", "add_category"}

\* the places in the dict of the categories with a keyword equal to the narration
Matching(narration, cats) ==
    {i \in DOMAIN cats :
        /\ cats[i].name # Uncategorized
        /\ \E k \in DOMAIN cats[i].keywords :
              strip(lower(cats[i].keywords[k])) = strip(lower(narration))}

Least(S) == CHOOSE i \in S : \A j \in S : i <= j
Greatest(S) == CHOOSE i \in S : \A j \in S : i >= j

Occurrences(x, list) == Cardinality({i \in DOMAIN list : list[i] = x})

\* C1 as stated: a row whose narration matches keywords of two or more
\* categories gets the category that is first in the store's order.
C1_FirstMatchWins ==
    FreshlyCategorized =>
        \A r \in DOMAIN Rows :
            Cardinality(Matching(Rows[r].Narration, categories)) >= 2 =>
                Rows[r].Category =
                    categories[Least(Matching(Rows[r].Narration, categories))].name

\* C1 amended: a row whose narration matches keywords of two or more categories
\* gets the category that is LAST in the store's order; each later matching
\* category overrides the earlier assignment within the pass.
C1_LastMatchWins ==
    FreshlyCategorized =>
        \A r \in DOMAIN Rows :
            Cardinality(Matching(Rows[r].Narration, categories)) >= 2 =>
                Rows[r].Category =
                    categories[Greatest(Matching(Rows[r].Narration, categories))].name

C1_Witness ==
    /\ FreshlyCategorized
    /\ \E r \in DOMAIN Rows :
          /\ Cardinality(Matching(Rows[r].Narration, categories)) >= 2
          /\ Rows[r].Category =
                categories[Greatest(Matching(Rows[r].Narration, categories))].name

\* C2: the category of every row of the session's debit and credit tables is a
\* key of the category store, in every reachable state.
C2_CategoryInStore ==
    \A r \in DOMAIN Rows : Rows[r].Category \in Keys(categories)

C2_Witness ==
    /\ event.kind = "apply_credit"
    /\ \E r \in DOMAIN debits_df.rows : debits_df.rows[r].Category = "Food"
    /\ \E r \in DOMAIN credits_df.rows : credits_df.rows[r].Category = "Rent"

\* C3: "Uncategorized" is a key of the store in memory, and of the persisted
\* store whenever the file exists, in every reachable state.
C3_UncategorizedPresent ==
    /\ Uncategorized \in Keys(categories)
    /\ category_file.exists =>
          \E m \in DOMAIN category_file.members :
              category_file.members[m][1] = Uncategorized

C3_Witness ==
    /\ event.kind = "start"
    /\ category_file.exists
    /\ Len(categories) >= 2
    /\ \E i \in DOMAIN categories : categories[i].keywords # <<>>

\* C4: the persisted store, loaded, equals the store in memory: the same names
\* and the same keyword list for each; with no file, nothing was ever changed.
C4_PersistedEqualsMemory ==
    IF category_file.exists
    THEN /\ Len(category_file.members) = Len(categories)
         /\ \A i \in DOMAIN categories :
               /\ category_file.members[i][1] = categories[i].name
               /\ category_file.members[i][2] = categories[i].keywords
    ELSE categories = << [name |-> Uncategorized, keywords |-> <<>>] >>

C4_Witness ==
    /\ event.kind \in {"apply_debit", "apply_credit"}
    /\ category_file.exists
    /\ \E i \in DOMAIN categories :
          categories[i].name # Uncategorized /\ Len(categories[i].keywords) >= 2

\* the call of this step is add_keyword(category, keyword) on a present category
AddKeywordCalled ==
    /\ event'.kind = "add_keyword"
    /\ event'.category \in Keys(categories)
    /\ event'.keyword # NaN

StoreUnchanged == categories' = categories /\ category_file' = category_file

\* C5: add_keyword is idempotent.  A call with the arguments of the call before
\* it returns false and changes neither the store nor the file; after a call
\* the trimmed keyword occurs exactly once in the category's list; a blank
\* keyword returns false and changes nothing.
C5_AddKeywordIdempotent ==
    [][AddKeywordCalled =>
          /\ strip(event'.keyword) = <<>> => outcome' = "False" /\ StoreUnchanged
          /\ strip(event'.keyword) # <<>> =>
                Occurrences(strip(event'.keyword),
                            Get(categories', event'.category)) = 1
          /\ event' = event => outcome' = "False" /\ StoreUnchanged]_vars

C5_Witness ==
    /\ event.kind = "add_keyword"
    /\ event.keyword = Text_A_
    /\ outcome = "False"
    /\ event.category \in Keys(categories)
    /\ Occurrences(<<"A">>, Get(categories, event.category)) = 1

\* the call of this step has invalid arguments
InvalidCall ==
    \/ /\ event'.kind = "add_category"
       /\ event'.category = "" \/ event'.category \in Keys(categories)
    \/ /\ event'.kind = "add_keyword"
       /\ event'.category \notin Keys(categories)

\* C6: a call with invalid arguments (add_category of an empty or a present
\* name, add_keyword on an absent category) does not return true and leaves the
\* store and the file as they were; no name is ever in the store twice.
C6_InvalidCallNoEffect ==
    [][/\ InvalidCall => outcome' # "True" /\ StoreUnchanged
       /\ \A i, j \in DOMAIN categories' :
             categories'[i].name = categories'[j].name => i = j]_vars

C6_Witness ==
    /\ event.kind = "add_category"
    /\ outcome = "False"
    /\ event.category \in Keys(categories)
    /\ Get(categories, event.category) # <<>>

\* the try block of load_transactions raises on the uploaded file
LoadFails(f, cats) ==
    \/ "Withdrawal Amt." \notin Files[f].columns
    \/ "Deposit Amt." \notin Files[f].columns
    \/ "Date" \notin Files[f].columns
    \/ \E r \in DOMAIN Files[f].rows :
          \/ amount_raises(Files[f].rows[r]["Withdrawal Amt."])
          \/ amount_raises(Files[f].rows[r]["Deposit Amt."])
          \/ ~date_matches(Files[f].rows[r]["Date"])
    \/ /\ \E i \in DOMAIN cats : cats[i].name # Uncategorized /\ cats[i].keywords # <<>>
       /\ \E r \in DOMAIN Files[f].rows :
             "Narration" \notin Files[f].columns \/ Files[f].rows[r]["Narration"] = NaN

RowsIn(rows, category) == {r \in DOMAIN rows : rows[r].Category = category}

RECURSIVE Sum(_, _, _)
Sum(rows, column, S) ==
    IF S = {} THEN 0
    ELSE LET r == CHOOSE x \in S : TRUE
         IN  rows[r][column] + Sum(rows, column, S \ {r})

RECURSIVE SumOfTotals(_)
SumOfTotals(totals) ==
    IF totals = <<>> THEN 0 ELSE Head(totals).total + SumOfTotals(Tail(totals))

IsSummary(totals, rows, column) ==
    /\ {totals[i].Category : i \in DOMAIN totals} = {rows[r].Category : r \in DOMAIN rows}
    /\ \A i, j \in DOMAIN totals : totals[i].Category = totals[j].Category => i = j
    /\ \A i \in DOMAIN totals :
          totals[i].total = Sum(rows, column, RowsIn(rows, totals[i].Category))
    /\ \A i \in DOMAIN totals : i < Len(totals) => totals[i].total >= totals[i + 1].total
    /\ SumOfTotals(totals) = Sum(rows, column, DOMAIN rows)

\* C8: each summary shown has one entry per category of its table, each total
\* the sum of the table's amount column over the category's rows, in
\* non-increasing order of total; the two summaries come from the two tables.
C8_SummaryTotals ==
    outcome = "rendered" =>
        /\ IsSummary(debit_totals, debits_df.rows, "Withdrawal")
        /\ IsSummary(credit_totals, credits_df.rows, "Deposit")

C8_Witness ==
    /\ outcome = "rendered"
    /\ Len(debit_totals) = 2
    /\ debit_totals[1].Category = Uncategorized
    /\ debit_totals[2].Category = "Food"
    /\ Cardinality(RowsIn(debits_df.rows, "Food")) = 2
    /\ Len(credit_totals) = 2
    /\ credit_totals[1].total > credit_totals[2].total

\* C9 as stated: once an applied edit has moved a row with narration n to a
\* category C other than "Uncategorized", every later load gives the rows with
\* narration n the category C.
C9_LearnedCategoryAssigned ==
    FreshlyCategorized =>
        \A r \in DOMAIN Rows :
            LET n == strip(lower(Rows[r].Narration)) IN
            (n \in DOMAIN learned /\ learned[n] # Uncategorized) =>
                Rows[r].Category = learned[n]

\* the row holds the category an applied edit gave its narration
UserChosen(row) ==
    LET n == strip(lower(row.Narration)) IN
    n \in DOMAIN learned /\ row.Category = learned[n]

KeepsUserChosen(table, table_after) ==
    \A r \in DOMAIN table.rows :
        UserChosen(table.rows[r]) =>
            /\ r \in DOMAIN table_after.rows
            /\ table_after.rows[r].Category = table.rows[r].Category

\* C10 as stated: a row whose category an applied edit has set keeps that
\* category ("Uncategorized" included) through every step that neither uploads
\* a file nor applies edits: no such step categorizes the session's tables again.
C10_EditedRowKeepsCategory ==
    [][event'.kind \in {"interact", "add_category"} =>
          /\ KeepsUserChosen(debits_df, debits_df')
          /\ KeepsUserChosen(credits_df, credits_df')]_vars

====
